---- MODULE Spec2Model ----
(***************************************************************************)
(* Model of extensions/amp-fx-collection/0.1/providers/amp-fx-presets.js:  *)
(* the Presets registry (parallax, fly-in-bottom, fade-in, fade-in-scroll) *)
(* with its three capabilities isFxTypeSupported, userAsserts and update,  *)
(* and the mutation callbacks that update hands to mutateElement.          *)
(*                                                                         *)
(* JavaScript numbers are modelled as IEEE 754 doubles: every result of   *)
(* the arithmetic and of parseFloat is rounded to the nearest double.      *)
(* Strings are sequences of one-character strings.                         *)
(***************************************************************************)
EXTENDS Integers, Sequences, FiniteSets

VARIABLES
  preset,                   \* key of Presets the element was registered with
  adjustedViewportHeight_,  \* fxElement.adjustedViewportHeight_
  factor,                   \* fxElement.getFactor()       (attribute string)
  margin,                   \* fxElement.getMargin()
  marginStart,              \* fxElement.getMarginStart()
  marginEnd,                \* fxElement.getMarginEnd()
  repeat,                   \* fxElement.hasRepeat()
  offset,                   \* fxElement.getOffset() / setOffset()
  mutateScheduled,          \* fxElement.isMutateScheduled() / setIsMutateScheduled()
  pending,                  \* callbacks handed to mutateElement and not yet run
  style,                    \* styles written on the element by setStyles
  lastInViewTop,            \* parallax: top of the latest update inside the viewport
  scheduledAtTop,           \* parallax: top of the update that scheduled the latest mutation
  attrs,                    \* attributes of the element userAsserts reads
  experiments,              \* experiments that are on in win
  ret                       \* outcome of the latest call

vars == <<preset, adjustedViewportHeight_, factor, margin, marginStart,
          marginEnd, repeat, offset, mutateScheduled, pending, style,
          lastInViewTop, scheduledAtTop, attrs, experiments, ret>>

fxConfig == <<preset, adjustedViewportHeight_, factor, margin, marginStart,
              marginEnd, repeat, attrs, experiments>>

(***************************************************************************)
(* Bounds of the model.                                                    *)
(***************************************************************************)
\* tops range from Slack above the viewport to Slack below MaxTop
MaxTop == 10
Slack == 1
\* cap on the number of callbacks queued in mutateElement
MaxPending == 2

(***************************************************************************)
(* JavaScript values.                                                      *)
(***************************************************************************)
Undefined == [undefined |-> TRUE]
Null == [null |-> TRUE]
\* the null getAttribute gives for a missing attribute: a value of the
\* strings' sort that is no string (its one element is not a character)
NullAttr == <<"null">>

(***************************************************************************)
(* Natural numbers of any size, as the sequence of their digits in base    *)
(* LimbBase, least significant first, without leading zeros. The           *)
(* operations work on all digits at once or by halving, so that their      *)
(* nesting stays shallow for long numbers; an intermediate value that is   *)
(* used more than once is handed on as an argument.                        *)
(***************************************************************************)
LimbBits == 15
LimbBase == 2 ^ LimbBits

Abs(x) == IF x < 0 THEN 0 - x ELSE x
Min(a, b) == IF a < b THEN a ELSE b
Max(a, b) == IF a > b THEN a ELSE b
Zeros(k) == [i \in 1..k |-> 0]
\* digit i of a, 0 outside its length
At(a, i) == IF 1 <= i /\ i <= Len(a) THEN a[i] ELSE 0
\* the sequence f[1], ..., f[n]
ToSeq(f, n) == SubSeq(f, 1, n)
\* y, with x evaluated before it
After(x, y) == IF x = x THEN y ELSE y

\* the length of the longest prefix of s made of elements of C
PrefixLen(s, C) ==
  CHOOSE k \in 0..Len(s) :
    /\ \A i \in 1..k : s[i] \in C
    /\ k = Len(s) \/ s[k + 1] \notin C

\* a without its leading zeros
BStrip(a) ==
  IF a = <<>> \/ a[Len(a)] # 0 THEN a
  ELSE IF \A i \in 1..Len(a) : a[i] = 0 THEN <<>>
  ELSE SubSeq(a, 1, CHOOSE i \in 1..Len(a) :
                      a[i] # 0 /\ \A j \in (i + 1)..Len(a) : a[j] = 0)

\* a natural number below LimbBase^3
BFromInt(i) ==
  IF i = 0 THEN <<>>
  ELSE IF i < LimbBase THEN <<i>>
  ELSE IF i < LimbBase * LimbBase THEN <<i % LimbBase, i \div LimbBase>>
  ELSE <<i % LimbBase, (i \div LimbBase) % LimbBase,
         i \div (LimbBase * LimbBase)>>

\* the carry into position i of digit sums s: the nearest position below
\* that does not pass a carry on has produced one
CarryInto(s, i) ==
  \E j \in 1..(i - 1) :
    s[j] >= LimbBase /\ \A k \in (j + 1)..(i - 1) : s[k] = LimbBase - 1

\* the digits of the number whose digit sums are s[1..n]
Carried(s, n) ==
  BStrip(ToSeq([i \in 1..n |->
           (s[i] + IF CarryInto(s, i) THEN 1 ELSE 0) % LimbBase], n))

BAdd(a, b) ==
  IF Len(a) <= 1 /\ Len(b) <= 1 THEN BFromInt(At(a, 1) + At(b, 1))
  ELSE Carried([i \in 1..(Max(Len(a), Len(b)) + 1) |-> At(a, i) + At(b, i)],
               Max(Len(a), Len(b)) + 1)

\* the borrow from position i of digit differences d
BorrowFrom(d, i) ==
  \E j \in 1..(i - 1) : d[j] < 0 /\ \A k \in (j + 1)..(i - 1) : d[k] = 0

\* the digits of the number whose digit differences are d[1..n]
Borrowed(d, n) ==
  BStrip(ToSeq([i \in 1..n |->
           (d[i] - (IF BorrowFrom(d, i) THEN 1 ELSE 0) + LimbBase)
             % LimbBase], n))

\* a - b for a >= b
BSub(a, b) ==
  IF Len(a) <= 1 THEN BFromInt(At(a, 1) - At(b, 1))
  ELSE Borrowed([i \in 1..Len(a) |-> a[i] - At(b, i)], Len(a))

\* -1, 0 or 1 as a < b, a = b or a > b: with equal lengths the highest
\* position where they differ decides
BCmp(a, b) ==
  IF Len(a) # Len(b) THEN (IF Len(a) > Len(b) THEN 1 ELSE 0 - 1)
  ELSE IF a = b THEN 0
  ELSE IF \E i \in 1..Len(a) :
            a[i] > b[i] /\ \A j \in (i + 1)..Len(a) : a[j] = b[j] THEN 1
  ELSE 0 - 1

\* a * c for a digit c
BMulSmall(a, c) ==
  IF Len(a) <= 1 THEN BFromInt(At(a, 1) * c)
  ELSE BAdd([i \in 1..Len(a) |-> (a[i] * c) % LimbBase],
            <<0>> \o [i \in 1..Len(a) |-> (a[i] * c) \div LimbBase])

\* a * b, by halving b
RECURSIVE BMulR(_, _)
BMulR(a, b) ==
  IF Len(b) = 0 THEN <<>>
  ELSE IF Len(b) = 1 THEN BMulSmall(a, b[1])
  ELSE BAdd(BMulR(a, SubSeq(b, 1, Len(b) \div 2)),
            Zeros(Len(b) \div 2)
              \o BMulR(a, SubSeq(b, (Len(b) \div 2) + 1, Len(b))))
BMul(a, b) == BMulR(IF Len(a) >= Len(b) THEN a ELSE b,
                    IF Len(a) >= Len(b) THEN b ELSE a)

\* a * 2^k and the integer part of a / 2^k
BShl(a, k) ==
  IF a = <<>> \/ k = 0 THEN a
  ELSE BStrip(ToSeq([i \in 1..(Len(a) + (k \div LimbBits) + 1) |->
         ((At(a, i - (k \div LimbBits)) * 2 ^ (k % LimbBits)) % LimbBase)
           + ((At(a, i - (k \div LimbBits) - 1) * 2 ^ (k % LimbBits))
                \div LimbBase)],
         Len(a) + (k \div LimbBits) + 1))
BShr(a, k) ==
  IF k = 0 THEN a
  ELSE IF Len(a) <= k \div LimbBits THEN <<>>
  ELSE BStrip(ToSeq([i \in 1..(Len(a) - (k \div LimbBits)) |->
         (a[(k \div LimbBits) + i] \div 2 ^ (k % LimbBits))
           + (At(a, (k \div LimbBits) + i + 1) % 2 ^ (k % LimbBits))
               * 2 ^ (LimbBits - (k % LimbBits))],
         Len(a) - (k \div LimbBits)))

RECURSIVE IntBitLen(_)
IntBitLen(i) == IF i = 0 THEN 0 ELSE 1 + IntBitLen(i \div 2)
BBitLen(a) == IF a = <<>> THEN 0
              ELSE LimbBits * (Len(a) - 1) + IntBitLen(a[Len(a)])

\* bit i of a, the lowest being bit 0
BBit(a, i) == IF i \div LimbBits >= Len(a) THEN 0
              ELSE (a[(i \div LimbBits) + 1] \div 2 ^ (i % LimbBits)) % 2

\* some of the k lowest bits of a is set
BLowBits(a, k) ==
  \/ \E j \in 1..Min(k \div LimbBits, Len(a)) : a[j] # 0
  \/ /\ k \div LimbBits < Len(a)
     /\ a[(k \div LimbBits) + 1] % 2 ^ (k % LimbBits) # 0

RECURSIVE IntTrailingZeros(_)
IntTrailingZeros(i) == IF i % 2 = 1 THEN 0 ELSE 1 + IntTrailingZeros(i \div 2)
\* the number of zero bits below the lowest set bit of a # 0
BTrailingZeros(a) ==
  LimbBits * PrefixLen(a, {0}) + IntTrailingZeros(a[PrefixLen(a, {0}) + 1])

\* a quotient with its remainder
QuotRem(q, r) == [q |-> q, r |-> r]

\* quotient and remainder by a digit c of the number made of the digits
\* lo..hi of a below rin * LimbBase^(hi - lo + 1), for rin < c
RECURSIVE BDivSmallR(_, _, _, _, _)
\* the lower half's division, once the upper half's result top is known
BDivSmallLower(a, lo, mid, c, top) ==
  After(top, BDivSmallR(a, lo, mid, c, top.r))
\* the two halves' results put together
Joined(top, bot) == After(bot, QuotRem(bot.q \o top.q, bot.r))
BDivSmallHalves(a, lo, mid, c, top) ==
  Joined(top, BDivSmallLower(a, lo, mid, c, top))
BDivSmallR(a, lo, hi, c, rin) ==
  IF lo > hi THEN QuotRem(<<>>, rin)
  ELSE IF lo = hi
    THEN QuotRem(<<(rin * LimbBase + a[lo]) \div c>>,
                 (rin * LimbBase + a[lo]) % c)
  ELSE BDivSmallHalves(a, lo, (lo + hi) \div 2, c,
                       BDivSmallR(a, ((lo + hi) \div 2) + 1, hi, c, rin))

\* the largest digit d in lo..hi with b * d <= cur, where b * lo <= cur
RECURSIVE QuotientDigit(_, _, _, _)
QuotientDigit(cur, b, lo, hi) ==
  IF lo = hi THEN lo
  ELSE IF BCmp(BMulSmall(b, (lo + hi + 1) \div 2), cur) <= 0
    THEN QuotientDigit(cur, b, (lo + hi + 1) \div 2, hi)
    ELSE QuotientDigit(cur, b, lo, ((lo + hi + 1) \div 2) - 1)

\* cur = b * d + the remainder, for the quotient digit d of cur by b
DigitStep(cur, b, d) ==
  QuotRem(<<d>>, IF d = 0 THEN cur ELSE BSub(cur, BMulSmall(b, d)))
\* quotient digit and remainder of cur < b * LimbBase by b
BDivDigit(cur, b) ==
  DigitStep(cur, b, IF BCmp(cur, b) < 0 THEN 0
                    ELSE QuotientDigit(cur, b, 1, LimbBase - 1))

\* quotient and remainder by b # 0 of the number made of the digits lo..hi
\* of a below rin * LimbBase^(hi - lo + 1), for rin < b
RECURSIVE BDivLong(_, _, _, _, _)
BDivLongLower(a, lo, mid, b, top) ==
  After(top, BDivLong(a, lo, mid, b, top.r))
BDivLongHalves(a, lo, mid, b, top) ==
  Joined(top, BDivLongLower(a, lo, mid, b, top))
BDivLong(a, lo, hi, b, rin) ==
  IF lo > hi THEN QuotRem(<<>>, rin)
  ELSE IF lo = hi THEN BDivDigit(BStrip(<<a[lo]>> \o rin), b)
  ELSE BDivLongHalves(a, lo, (lo + hi) \div 2, b,
                      BDivLong(a, ((lo + hi) \div 2) + 1, hi, b, rin))

\* the quotient without leading zeros; a remainder below LimbBase as a
\* number
Stripped(x) == QuotRem(BStrip(x.q), x.r)
StrippedSmall(x) == QuotRem(BStrip(x.q), BFromInt(x.r))
\* quotient and remainder of a by b # 0
BDivMod(a, b) ==
  IF Len(b) = 1 THEN StrippedSmall(BDivSmallR(a, 1, Len(a), b[1], 0))
  ELSE Stripped(BDivLong(a, 1, Len(a), b, <<>>))

\* 10^k, by squaring
RECURSIVE BPow10(_)
BPow10Step(h, odd) == BMul(h, IF odd THEN BMulSmall(h, 10) ELSE h)
BPow10(k) ==
  IF k = 0 THEN <<1>> ELSE BPow10Step(BPow10(k \div 2), k % 2 = 1)

(***************************************************************************)
(* JavaScript numbers: IEEE 754 doubles. A finite number is s * m * 2^e    *)
(* with s the sign, m an odd natural number of at most MantissaBits bits   *)
(* (or 0, with e = 0), so that equal records are the same double; +0 and  *)
(* -0 differ in s.                                                         *)
(***************************************************************************)
MantissaBits == 53
\* extra low bits kept in an intermediate result before it is rounded
GuardBits == 3
\* the exponent of the smallest subnormal, 2^-1074
MinExponent == 0 - 1074
\* doubles lie below 2^1024
MaxBitLen == 1024
\* doubles lie between 10^-400 and 10^400
MaxDecimalExponent == 400

NaN == [k |-> "nan"]
Inf(s) == [k |-> "inf", s |-> s]
Infinity == Inf(1)
Zero(s) == [k |-> "fin", s |-> s, m |-> <<>>, e |-> 0]
NegZero == Zero(0 - 1)

IsNaN(x) == x.k = "nan"
IsInf(x) == x.k = "inf"
IsZero(x) == x.k = "fin" /\ x.m = <<>>

\* M, or the next number up when the bits dropped below it are more than
\* half of its lowest bit, or just half and M is odd (ties go to even)
Nearest(M, half, rest) ==
  IF half /\ (rest \/ BBit(M, 0) = 1) THEN BAdd(M, <<1>>) ELSE M

\* N * 2^-shift, rounded to an integer when shift > 0
Shifted(N, shift, sticky) ==
  IF shift <= 0 THEN BShl(N, 0 - shift)
  ELSE Nearest(BShr(N, shift), BBit(N, shift - 1) = 1,
               sticky \/ (shift > 1 /\ BLowBits(N, shift - 1)))

\* the number s * R * 2^q for R of at most MantissaBits bits, its mantissa
\* made odd; Infinity when it is beyond the doubles
Pack(s, R, q) ==
  IF R = <<>> THEN Zero(s)
  ELSE IF BBitLen(R) + q > MaxBitLen THEN Inf(s)
  ELSE [k |-> "fin", s |-> s, m |-> BShr(R, BTrailingZeros(R)),
        e |-> q + BTrailingZeros(R)]

\* the exponent of the lowest bit a double near N * 2^e keeps
LowestExponent(N, e, sticky) ==
  IF ~sticky /\ e >= MinExponent /\ BBitLen(N) <= MantissaBits
    THEN e    \* the number is a double as it stands
    ELSE Max(e + BBitLen(N) - MantissaBits, MinExponent)

\* the double of sign s nearest to N * 2^e (plus, when sticky, a fraction
\* of 2^e that is not 0 and less than 1/2^2 of N's lowest kept bit): round
\* to nearest, ties to even, subnormals and overflow to Infinity included
RoundFin(s, N, e, sticky) ==
  IF N = <<>> THEN Zero(s)
  ELSE Pack(s, Shifted(N, LowestExponent(N, e, sticky) - e, sticky),
            LowestExponent(N, e, sticky))

\* an exact result before it is rounded
Parts(s, N, e, sticky) == [s |-> s, N |-> N, e |-> e, sticky |-> sticky]
RoundParts(p) == After(p, RoundFin(p.s, p.N, p.e, p.sticky))

\* the integer i as a number
Num(i) ==
  IF i = 0 THEN Zero(1)
  ELSE [k |-> "fin", s |-> IF i < 0 THEN 0 - 1 ELSE 1,
        m |-> BFromInt(Abs(i) \div 2 ^ IntTrailingZeros(Abs(i))),
        e |-> IntTrailingZeros(Abs(i))]

\* unary -: the sign is flipped, also that of a zero
Neg(x) == IF IsNaN(x) THEN NaN ELSE [x EXCEPT !.s = 0 - x.s]

\* the number of magnitude m (m >= 0 or NaN) with the given sign
Signed(neg, m) == IF neg THEN Neg(m) ELSE m

\* the position above the highest set bit of a finite x # 0
TopBit(x) == BBitLen(x.m) + x.e

\* -1, 0, 1 as |x| < |y|, |x| = |y|, |x| > |y|, for finite x and y
MagCmp(x, y) ==
  IF x.m = <<>> \/ y.m = <<>>
    THEN (IF x.m = y.m THEN 0 ELSE IF x.m = <<>> THEN 0 - 1 ELSE 1)
  ELSE IF TopBit(x) # TopBit(y)
    THEN (IF TopBit(x) > TopBit(y) THEN 1 ELSE 0 - 1)
  ELSE BCmp(BShl(x.m, x.e - Min(x.e, y.e)), BShl(y.m, y.e - Min(x.e, y.e)))

\* hi + lo for |lo| less than the lowest bit of hi's mantissa widened by sh
FarSum(hi, lo, sh) ==
  Parts(hi.s,
        IF hi.s = lo.s THEN BShl(hi.m, sh) ELSE BSub(BShl(hi.m, sh), <<1>>),
        hi.e - sh, TRUE)

\* a - b or b - a, whichever is not negative, with the sign of the larger
Difference(sx, sy, a, b, e, c) ==
  Parts(IF c = 0 THEN 1 ELSE IF c > 0 THEN sx ELSE sy,
        IF c >= 0 THEN BSub(a, b) ELSE BSub(b, a), e, FALSE)

\* sx * a * 2^e + sy * b * 2^e
NearSum(sx, sy, a, b, e) ==
  IF sx = sy THEN Parts(sx, BAdd(a, b), e, FALSE)
  ELSE Difference(sx, sy, a, b, e, BCmp(a, b))

\* x + y for finite x and y that are not 0
FiniteSum(x, y) ==
  IF Abs(TopBit(x) - TopBit(y)) > MantissaBits + GuardBits
    THEN FarSum(IF TopBit(x) > TopBit(y) THEN x ELSE y,
                IF TopBit(x) > TopBit(y) THEN y ELSE x,
                MantissaBits + GuardBits
                  - BBitLen((IF TopBit(x) > TopBit(y) THEN x ELSE y).m))
    ELSE NearSum(x.s, y.s, BShl(x.m, x.e - Min(x.e, y.e)),
                 BShl(y.m, y.e - Min(x.e, y.e)), Min(x.e, y.e))

\* x + y
Add(x, y) ==
  IF IsNaN(x) \/ IsNaN(y) THEN NaN
  ELSE IF IsInf(x) /\ IsInf(y) THEN (IF x.s = y.s THEN x ELSE NaN)
  ELSE IF IsInf(x) THEN x
  ELSE IF IsInf(y) THEN y
  ELSE IF IsZero(x) /\ IsZero(y)
    THEN Zero(IF x.s < 0 /\ y.s < 0 THEN 0 - 1 ELSE 1)
  ELSE IF IsZero(x) THEN y
  ELSE IF IsZero(y) THEN x
  ELSE RoundParts(FiniteSum(x, y))

\* x - y
Sub(x, y) == Add(x, Neg(y))

\* x * y
Mul(x, y) ==
  IF IsNaN(x) \/ IsNaN(y) THEN NaN
  ELSE IF IsInf(x) \/ IsInf(y)
    THEN (IF IsZero(x) \/ IsZero(y) THEN NaN ELSE Inf(x.s * y.s))
  ELSE RoundFin(x.s * y.s, BMul(x.m, y.m), x.e + y.e, FALSE)

\* the quotient qr.q * 2^e, inexact when the division left a remainder
QuotientParts(s, qr, e) == After(qr, Parts(s, qr.q, e, qr.r # <<>>))

\* x / y for finite x and y that are not 0, x's mantissa widened by sh
FiniteQuot(x, y, sh) ==
  IF y.m = <<1>> THEN Parts(x.s * y.s, x.m, x.e - y.e, FALSE)
  ELSE QuotientParts(x.s * y.s, BDivMod(BShl(x.m, sh), y.m), x.e - y.e - sh)

\* x / y
Quot(x, y) ==
  IF IsNaN(x) \/ IsNaN(y) THEN NaN
  ELSE IF IsInf(x) /\ IsInf(y) THEN NaN
  ELSE IF IsZero(x) /\ IsZero(y) THEN NaN
  ELSE IF IsInf(x) \/ IsZero(y) THEN Inf(x.s * y.s)
  ELSE IF IsInf(y) \/ IsZero(x) THEN Zero(x.s * y.s)
  ELSE RoundParts(FiniteQuot(x, y,
         Max(0, MantissaBits + GuardBits + BBitLen(y.m) - BBitLen(x.m))))

\* the number n / d, as the division of the two integers gives it
Frac(n, d) == Quot(Num(n), Num(d))

\* the sign of a number that is not NaN: -1, 0 or 1
Sign(x) == IF IsZero(x) THEN 0 ELSE x.s

\* -1, 0, 1 as x < y, x = y, x > y, for numbers that are not NaN
Cmp(x, y) ==
  IF Sign(x) # Sign(y) THEN (IF Sign(x) > Sign(y) THEN 1 ELSE 0 - 1)
  ELSE IF Sign(x) = 0 THEN 0
  ELSE IF IsInf(x) \/ IsInf(y)
    THEN (IF IsInf(x) /\ IsInf(y) THEN 0
          ELSE IF IsInf(x) THEN Sign(x) ELSE 0 - Sign(x))
  ELSE Sign(x) * MagCmp(x, y)

\* x > y, x >= y and x < y of JavaScript: false when either side is NaN
Gt(x, y) == ~IsNaN(x) /\ ~IsNaN(y) /\ Cmp(x, y) > 0
Ge(x, y) == ~IsNaN(x) /\ ~IsNaN(y) /\ Cmp(x, y) >= 0
Lt(x, y) == Gt(y, x)

\* a truthiness test that only asks whether the value is set
TruthyWhenDefined(x) == x # Undefined

\* ToBoolean of a number or undefined: 0, NaN and undefined are falsy
Truthy(x) == x # Undefined /\ ~IsNaN(x) /\ ~IsZero(x)

(***************************************************************************)
(* Strings and the conversions the presets use.                            *)
(***************************************************************************)
Digits == {"0", "1", "2", "3", "4", "5", "6", "7", "8", "9"}
DigitChars == <<"0", "1", "2", "3", "4", "5", "6", "7", "8", "9">>
DigitVal(c) == (CHOOSE i \in 1..10 : DigitChars[i] = c) - 1

\* ToString of an attribute value: getAttribute gives null for a missing one
StringOf(v) == IF v = NullAttr THEN <<"n", "u", "l", "l">> ELSE v

\* StrWhiteSpaceChar: the white space and line terminators parseFloat skips
\* (tab, line feed, vertical tab, form feed, carriage return, space,
\* no-break space, the other Unicode space separators, line and paragraph
\* separator, byte order mark); a character beyond the escapes of the
\* notation is written as its \u code
WhiteSpaceChars ==
  {" ", "\t", "\n", "\f", "\r", "\\u000B", "\\u00A0", "\\u1680",
   "\\u2000", "\\u2001", "\\u2002", "\\u2003", "\\u2004", "\\u2005",
   "\\u2006", "\\u2007", "\\u2008", "\\u2009", "\\u200A", "\\u2028",
   "\\u2029", "\\u202F", "\\u205F", "\\u3000", "\\uFEFF"}

TrimLeft(s) == SubSeq(s, PrefixLen(s, WhiteSpaceChars) + 1, Len(s))

\* the longest prefix of s made of decimal digits
DigitRun(s) == SubSeq(s, 1, PrefixLen(s, Digits))

\* 10^k and the number a string of at most MaxIntDigits digits denotes, as
\* integers
MaxIntDigits == 9
RECURSIVE Pow10(_)
Pow10(k) == IF k = 0 THEN 1 ELSE 10 * Pow10(k - 1)
RECURSIVE IntOfDigits(_)
IntOfDigits(s) ==
  IF s = <<>> THEN 0
  ELSE 10 * IntOfDigits(SubSeq(s, 1, Len(s) - 1)) + DigitVal(s[Len(s)])

\* the natural number a digit string denotes
RECURSIVE DigitsValue(_)
DigitsValue(s) ==
  IF Len(s) <= MaxIntDigits THEN BFromInt(IntOfDigits(s))
  ELSE BAdd(BMul(DigitsValue(SubSeq(s, 1, Len(s) \div 2)),
                 BPow10(Len(s) - (Len(s) \div 2))),
            DigitsValue(SubSeq(s, (Len(s) \div 2) + 1, Len(s))))

\* the value of an exponent's digits s, or cap when it is larger
ExponentValue(s, cap) ==
  IF Len(s) - PrefixLen(s, {"0"}) > MaxIntDigits THEN cap
  ELSE Min(cap, IntOfDigits(s))

Rest(s, k) == SubSeq(s, k + 1, Len(s))
StartsWith(s, p) == Len(s) >= Len(p) /\ SubSeq(s, 1, Len(p)) = p
InfinityStr == <<"I", "n", "f", "i", "n", "i", "t", "y">>

\* N widened by sh bits and divided by pw
DecimalQuot(N, pw, sh) == QuotientParts(1, BDivMod(BShl(N, sh), pw), 0 - sh)
\* N * pw when up, N / pw otherwise
Scaled(N, pw, up) ==
  After(pw, IF up THEN Parts(1, BMul(N, pw), 0, FALSE)
            ELSE DecimalQuot(N, pw, Max(0, MantissaBits + GuardBits
                                             + BBitLen(pw) - BBitLen(N))))
\* the double nearest to N * 10^p
Decimal(N, p) ==
  IF N = <<>> THEN Zero(1)
  ELSE RoundParts(Scaled(N, BPow10(Abs(p)), p >= 0))

\* s starts with a minus sign
IsMinus(s) == s # <<>> /\ Head(s) = "-"
\* s without the sign it starts with, if any
Unsigned(s) == IF s # <<>> /\ Head(s) \in {"+", "-"} THEN Tail(s) ELSE s
\* the digits after the decimal point s starts with, if any
FractionDigits(s) ==
  IF s # <<>> /\ Head(s) = "." THEN DigitRun(Tail(s)) ELSE <<>>
\* s after its decimal point, if any, and the fraction digits fp
AfterFraction(s, fp) ==
  IF s # <<>> /\ Head(s) = "." THEN Rest(s, 1 + Len(fp)) ELSE s
\* what follows the e or E s starts with, if any
ExponentPart(s) ==
  IF s # <<>> /\ Head(s) \in {"e", "E"} THEN Tail(s) ELSE <<>>
\* the signed exponent written at the start of s, within -cap..cap
SignedExponent(s, cap) ==
  (IF IsMinus(s) THEN 0 - 1 ELSE 1)
    * ExponentValue(DigitRun(Unsigned(s)), cap)

\* the number with integer digits ip, fraction digits fp and exponent part
\* ex; past the cap a literal of these digits is 0 or Infinity
ParseExponent(ip, fp, ex) ==
  Decimal(DigitsValue(ip \o fp),
          SignedExponent(ex, MaxDecimalExponent + Len(ip) + Len(fp))
            - Len(fp))
\* the literal with integer digits ip, followed by s with fraction digits fp
ParseFraction(ip, fp, s) ==
  IF ip = <<>> /\ fp = <<>> THEN NaN
  ELSE ParseExponent(ip, fp, ExponentPart(AfterFraction(s, fp)))
\* the literal without sign at the start of s
ParseUnsigned(s) ==
  IF StartsWith(s, InfinityStr) THEN Infinity
  ELSE ParseFraction(DigitRun(s),
                     FractionDigits(Rest(s, PrefixLen(s, Digits))),
                     Rest(s, PrefixLen(s, Digits)))
\* the literal at the start of s
ParseLiteral(s) == Signed(IsMinus(s), ParseUnsigned(Unsigned(s)))

\* parseFloat: leading white space is skipped, then the longest prefix that
\* is a decimal literal (sign, Infinity or digits, fraction, exponent) is
\* read; NaN when there is none
ParseFloat(v) == ParseLiteral(TrimLeft(StringOf(v)))

\* the k decimal digits of a natural number below 10^k
RECURSIVE BToDigits(_, _)
SmallDigits(v, k) ==
  ToSeq([i \in 1..k |-> DigitChars[((v \div Pow10(k - i)) % 10) + 1]], k)
SplitDigits(qr, k, h) == BToDigits(qr.q, k - h) \o BToDigits(qr.r, h)
BToDigits(a, k) ==
  IF k <= MaxIntDigits THEN SmallDigits(At(a, 1) + LimbBase * At(a, 2), k)
  ELSE SplitDigits(BDivMod(a, BPow10(k \div 2)), k, k \div 2)

\* d without its leading zeros, but for the last digit
StripZeros(d) == SubSeq(d, Min(PrefixLen(d, {"0"}) + 1, Len(d)), Len(d))
\* the decimal digits of a natural number, without leading zeros
BToStr(a) == StripZeros(BToDigits(a, (BBitLen(a) * 31) \div 100 + 1))

\* the integer nearest to |x| for a finite x, a tie going up
RoundHalfUp(x) ==
  IF x.e >= 0 THEN BShl(x.m, x.e)
  ELSE Nearest(BShr(x.m, 0 - x.e), BBit(x.m, (0 - x.e) - 1) = 1, TRUE)

\* a number has at most this many significant decimal digits when written
\* with as few as tell it from its neighbours
MaxShortestDigits == 17
\* from this power of ten on toFixed writes a number as ToString does
ToFixedLimit == 21

\* of the neighbours lo and hi of a value, those that fit being fl and fh,
\* the one that fits and is nearer (c < 0: lo is), the even one in a tie;
\* no digits when neither fits
Prefer(lo, hi, fl, fh, c) ==
  IF fl /\ fh
    THEN (IF c < 0 THEN lo
          ELSE IF c > 0 THEN hi
          ELSE IF lo[1] % 2 = 0 THEN lo ELSE hi)
  ELSE IF fl THEN lo
  ELSE IF fh THEN hi
  ELSE <<>>
\* lo and hi fit when lo * 10^p and hi * 10^p are read back as x
Fitting(x, p, lo, hi, c) ==
  Prefer(lo, hi, Decimal(lo, p) = x, Decimal(hi, p) = x, c)
\* the neighbours of V / pw are its integer part and the next integer
Neighbours(x, p, pw, qr) ==
  After(qr, Fitting(x, p, qr.q, BAdd(qr.q, <<1>>),
                    BCmp(BAdd(qr.r, qr.r), pw)))
\* the digits s nearest to V / 10^p for which s * 10^p is read back as x
DigitsAt(x, V, p, pw) == After(pw, Neighbours(x, p, pw, BDivMod(V, pw)))

\* the first position of cs that holds digits
FirstDigits(cs) ==
  CHOOSE k \in 1..Len(cs) : cs[k] # <<>> /\ \A j \in 1..(k - 1) : cs[j] = <<>>
\* the position of the last digit of d that is not 0
LastNonZero(d) ==
  CHOOSE i \in 1..Len(d) : d[i] # "0" /\ \A j \in (i + 1)..Len(d) : d[j] = "0"
\* the digits d as d.ddd, without the zeros at their end
Significand(d, sig) ==
  <<d[1]>> \o (IF sig > 1 THEN <<".">> \o SubSeq(d, 2, sig) ELSE <<>>)
\* the digits d times 10^p, written as d.ddde+n
Scientific(d, p) ==
  Significand(d, LastNonZero(d)) \o <<"e", "+">>
    \o BToStr(BFromInt(Len(d) + p - 1))
\* cs[k] holding the k digits that are read back as a number of nd digits,
\* or none: the first that holds any, written out
ShortestOf(cs, nd) ==
  After(cs, Scientific(BToStr(cs[FirstDigits(cs)]), nd - FirstDigits(cs)))
\* ToString of x = V, an integer of nd digits
ToStringOf(x, V, nd) ==
  After(nd, ShortestOf(ToSeq([k \in 1..MaxShortestDigits |->
                                DigitsAt(x, V, nd - k, BPow10(nd - k))],
                             MaxShortestDigits), nd))

\* Number::toString of a finite x = V >= 10^21: the fewest digits s and the
\* power of ten p for which s * 10^p is read back as x, the nearest to x
\* when several s do, written as d.ddde+n
LargeToString(x, V) == After(V, ToStringOf(x, V, Len(BToStr(V))))

\* the digits of |x| for a finite x: the nearest integer, or from
\* 10^ToFixedLimit on what ToString writes
FixedDigits(x, large) ==
  IF large THEN LargeToString([x EXCEPT !.s = 1], BShl(x.m, x.e))
  ELSE BToStr(RoundHalfUp(x))

\* Number.prototype.toFixed(0): the nearest integer, a tie going away from
\* zero, a negative number keeping its sign even when it rounds to 0; a
\* number of 10^21 or more is written as ToString writes it
ToFixed0(x) ==
  IF IsNaN(x) THEN <<"N", "a", "N">>
  ELSE IF IsInf(x) THEN (IF x.s < 0 THEN <<"-">> ELSE <<>>) \o InfinityStr
  ELSE (IF x.s < 0 /\ ~IsZero(x) THEN <<"-">> ELSE <<>>)
         \o FixedDigits(x, x.e > 0
                           /\ BCmp(BShl(x.m, x.e), BPow10(ToFixedLimit)) >= 0)

TranslateYPrefix == <<"t", "r", "a", "n", "s", "l", "a", "t", "e", "Y", "(">>
\* the template literal `translateY(${...}px)`
TranslateY(px) == TranslateYPrefix \o px \o <<"p", "x", ")">>

(***************************************************************************)
(* The element an effect runs on, and the calls made on it.                *)
(***************************************************************************)
PresetNames == {"parallax", "fly-in-bottom", "fade-in", "fade-in-scroll"}

\* adjustedViewportHeight_: not yet set, NaN, 0, and heights at which the
\* margins' boundaries fall on whole tops
Heights == {Undefined, NaN} \cup {Num(h) : h \in {0, 4, 10}}
Tops == {Num(t) : t \in (0 - Slack)..(MaxTop + Slack)}
\* margins that are binary fractions, with which the presets' arithmetic is
\* exact, and margins that are not, with which it rounds
Margins == {Num(0), Frac(1, 4), Frac(1, 2), Frac(1, 10), Frac(2, 5),
            Frac(7, 10), Frac(9, 10)}
Factors == { <<"1">>, <<"2">>, <<"0", ".", "5">>, <<"\t", "1", ".", "5">>,
             <<"1", ".", "1">>, <<"1", ".", "1", "5">>,
             <<"1", ".", "2", "5">>, InfinityStr }

\* the scroll entries update is called with
Entries == {[positionRect |-> Null]}
             \cup {[positionRect |-> [top |-> t]] : t \in Tops}

NoStyle == [unset |-> TRUE]

Ret(op, entry, outcome, value) ==
  [op |-> op, entry |-> entry, outcome |-> outcome, value |-> value,
   wasPending |-> pending > 0]

\* user().assert(v, ...): an error is thrown on a falsy v
AssertFails(ok) == ~ok

\* dev().assert(v), of src/log as user().assert is: taken to throw an error
\* on a falsy v as well
DevAssertFails(ok) == ~ok

\* fxElement.setIsMutateScheduled(true); ...mutateElement(element, callback)
Schedule == mutateScheduled' = TRUE /\ pending' = pending + 1

Throw(op, entry) ==
  /\ ret' = Ret(op, entry, "throw", "none")
  /\ UNCHANGED <<fxConfig, offset, mutateScheduled, pending, style,
                 lastInViewTop, scheduledAtTop>>

Return(op, entry, value) ==
  /\ ret' = Ret(op, entry, "return", value)
  /\ UNCHANGED <<fxConfig, offset, mutateScheduled, pending, style,
                 lastInViewTop, scheduledAtTop>>

\* !entry.positionRect || entry.positionRect.top > threshold
OutsideViewport(entry, threshold) ==
  \/ entry.positionRect = Null
  \/ Gt(entry.positionRect.top, threshold)

\* (1 - m) * fxElement.adjustedViewportHeight_
MarginThreshold(m) == Mul(Sub(Num(1), m), adjustedViewportHeight_)

(***************************************************************************)
(* parallax                                                                *)
(***************************************************************************)
\* (adjustedViewportHeight_ - top) * -(parseFloat(getFactor()) - 1)
ParallaxOffset(height, top, f) ==
  Mul(Sub(height, top), Neg(Sub(ParseFloat(f), Num(1))))

\* parallax update with the pending test moved before the offset is stored
ParallaxUpdateGuardFirst(entry) ==
  /\ preset = "parallax"
  /\ pending < MaxPending
  /\ IF DevAssertFails(Truthy(adjustedViewportHeight_))
       THEN Throw("update", entry)
     ELSE IF OutsideViewport(entry, adjustedViewportHeight_)
       THEN Return("update", entry, "undefined")
     ELSE /\ lastInViewTop' = entry.positionRect.top
          /\ IF mutateScheduled
               THEN UNCHANGED <<offset, mutateScheduled, pending, scheduledAtTop>>
               ELSE /\ offset' = ParallaxOffset(adjustedViewportHeight_,
                                                entry.positionRect.top, factor)
                    /\ Schedule
                    /\ scheduledAtTop' = entry.positionRect.top
          /\ ret' = Ret("update", entry, "return", "undefined")
          /\ UNCHANGED <<fxConfig, style>>

ParallaxUpdate(entry) ==
  /\ preset = "parallax"
  /\ pending < MaxPending
  /\ IF DevAssertFails(Truthy(adjustedViewportHeight_))
       THEN Throw("update", entry)
     ELSE IF OutsideViewport(entry, adjustedViewportHeight_)
       THEN Return("update", entry, "undefined")
     ELSE /\ offset' = ParallaxOffset(adjustedViewportHeight_,
                                      entry.positionRect.top, factor)
          /\ lastInViewTop' = entry.positionRect.top
          /\ IF mutateScheduled
               THEN UNCHANGED <<mutateScheduled, pending, scheduledAtTop>>
               ELSE Schedule /\ scheduledAtTop' = entry.positionRect.top
          /\ ret' = Ret("update", entry, "return", "undefined")
          /\ UNCHANGED <<fxConfig, style>>

ParallaxMutate ==
  /\ preset = "parallax"
  /\ pending > 0
  /\ pending' = pending - 1
  /\ mutateScheduled' = FALSE
  /\ style' = [style EXCEPT !.transform = TranslateY(ToFixed0(offset))]
  /\ ret' = Ret("mutate", [positionRect |-> Null], "return", "undefined")
  /\ UNCHANGED <<fxConfig, offset, lastInViewTop, scheduledAtTop>>

(***************************************************************************)
(* fly-in-bottom                                                           *)
(***************************************************************************)
\* the trigger threshold with the margin left out
FlyInBottomThresholdNoMargin == adjustedViewportHeight_

\* (1 - fxElement.getMargin()) * fxElement.adjustedViewportHeight_
FlyInBottomThreshold == MarginThreshold(margin)

FlyInBottomUpdate(entry) ==
  /\ preset = "fly-in-bottom"
  /\ pending < MaxPending
  /\ IF DevAssertFails(Truthy(adjustedViewportHeight_))
       THEN Throw("update", entry)
     ELSE IF OutsideViewport(entry, FlyInBottomThreshold)
       THEN Return("update", entry, "undefined")
     ELSE IF mutateScheduled
       THEN Return("update", entry, "undefined")
     ELSE /\ Schedule
          /\ ret' = Ret("update", entry, "return", "undefined")
          /\ UNCHANGED <<fxConfig, offset, style, lastInViewTop, scheduledAtTop>>

FlyInBottomMutate ==
  /\ preset = "fly-in-bottom"
  /\ pending > 0
  /\ pending' = pending - 1
  /\ mutateScheduled' = FALSE
  /\ style' = [style EXCEPT !.transition = TRUE,
                            !.transform = TranslateY(<<"-", "1", "5", "0">>)]
  /\ ret' = Ret("mutate", [positionRect |-> Null], "return", "undefined")
  /\ UNCHANGED <<fxConfig, offset, lastInViewTop, scheduledAtTop>>

(***************************************************************************)
(* fade-in                                                                 *)
(***************************************************************************)
\* fade-in update without the isMutateScheduled test
FadeInUpdateNoGuard(entry) ==
  /\ preset = "fade-in"
  /\ pending < MaxPending
  /\ IF DevAssertFails(Truthy(adjustedViewportHeight_))
       THEN Throw("update", entry)
     ELSE IF OutsideViewport(entry, MarginThreshold(marginStart))
       THEN Return("update", entry, "undefined")
     ELSE /\ Schedule
          /\ ret' = Ret("update", entry, "return", "undefined")
          /\ UNCHANGED <<fxConfig, offset, style, lastInViewTop, scheduledAtTop>>

FadeInUpdate(entry) ==
  /\ preset = "fade-in"
  /\ pending < MaxPending
  /\ IF DevAssertFails(Truthy(adjustedViewportHeight_))
       THEN Throw("update", entry)
     ELSE IF OutsideViewport(entry, MarginThreshold(marginStart))
       THEN Return("update", entry, "undefined")
     ELSE IF mutateScheduled
       THEN Return("update", entry, "undefined")
     ELSE /\ Schedule
          /\ ret' = Ret("update", entry, "return", "undefined")
          /\ UNCHANGED <<fxConfig, offset, style, lastInViewTop, scheduledAtTop>>

FadeInMutate ==
  /\ preset = "fade-in"
  /\ pending > 0
  /\ pending' = pending - 1
  /\ mutateScheduled' = FALSE
  /\ style' = [style EXCEPT !.transition = TRUE, !.opacity = Num(1)]
  /\ ret' = Ret("mutate", [positionRect |-> Null], "return", "undefined")
  /\ UNCHANGED <<fxConfig, offset, lastInViewTop, scheduledAtTop>>

(***************************************************************************)
(* fade-in-scroll                                                          *)
(***************************************************************************)
\* the offset with the start margin not subtracted from the position
FadeInScrollOffsetNoStart(height, top, mStart, mEnd) ==
  LET marginDelta == Sub(mEnd, mStart)
  IN  Quot(Mul(Num(1), Sub(height, top)), Mul(marginDelta, height))

\* 1 * (height - top - (marginStart * height)) / (marginDelta * height)
FadeInScrollOffset(height, top, mStart, mEnd) ==
  LET marginDelta == Sub(mEnd, mStart)
  IN  Quot(Mul(Num(1), Sub(Sub(height, top), Mul(mStart, height))),
           Mul(marginDelta, height))

\* no early exit for a fully applied effect
FadeInScrollNoEarlyExit == FALSE

\* !fxElement.hasRepeat() && fxElement.getOffset() >= 1
FadeInScrollEarlyExit == ~repeat /\ Ge(offset, Num(1))

\* no pending test before the offset is computed
FadeInScrollNoPendingExit == FALSE

\* if (fxElement.isMutateScheduled()) return;   before the offset is computed
FadeInScrollPendingExit == mutateScheduled

FadeInScrollUpdate(entry) ==
  /\ preset = "fade-in-scroll"
  /\ pending < MaxPending
  /\ IF DevAssertFails(Truthy(adjustedViewportHeight_))
       THEN Throw("update", entry)
     ELSE IF OutsideViewport(entry, MarginThreshold(marginStart))
       THEN Return("update", entry, "undefined")
     ELSE IF FadeInScrollPendingExit
       THEN Return("update", entry, "undefined")
     ELSE IF FadeInScrollEarlyExit
       THEN Return("update", entry, "undefined")
     ELSE /\ offset' = FadeInScrollOffset(adjustedViewportHeight_,
                           entry.positionRect.top, marginStart, marginEnd)
          /\ IF mutateScheduled
               THEN UNCHANGED <<mutateScheduled, pending>>
               ELSE Schedule
          /\ ret' = Ret("update", entry, "return", "undefined")
          /\ UNCHANGED <<fxConfig, style, lastInViewTop, scheduledAtTop>>

FadeInScrollMutate ==
  /\ preset = "fade-in-scroll"
  /\ pending > 0
  /\ pending' = pending - 1
  /\ mutateScheduled' = FALSE
  /\ style' = [style EXCEPT !.opacity = offset]
  /\ ret' = Ret("mutate", [positionRect |-> Null], "return", "undefined")
  /\ UNCHANGED <<fxConfig, offset, lastInViewTop, scheduledAtTop>>

(***************************************************************************)
(* Scrolling: an element registered with one preset receives update calls  *)
(* and the mutation callbacks it scheduled, in any order.                  *)
(***************************************************************************)
NoAttrs == [factor |-> NullAttr, margin |-> NullAttr,
            marginStart |-> NullAttr, marginEnd |-> NullAttr]

Init ==
  /\ preset \in PresetNames
  /\ adjustedViewportHeight_ \in Heights
  /\ factor \in (IF preset = "parallax" THEN Factors ELSE {NullAttr})
  /\ margin \in (IF preset = "fly-in-bottom" THEN Margins ELSE {Num(0)})
  /\ marginStart \in (IF preset \in {"fade-in", "fade-in-scroll"}
                        THEN Margins ELSE {Num(0)})
  /\ marginEnd \in (IF preset = "fade-in-scroll"
                      THEN {m \in Margins : Gt(m, marginStart)}
                      ELSE {Frac(1, 2)})
  /\ repeat \in (IF preset = "fade-in-scroll" THEN BOOLEAN ELSE {FALSE})
  /\ offset = Num(0)
  /\ mutateScheduled = FALSE
  /\ pending = 0
  /\ style = [transform |-> NoStyle, opacity |-> NoStyle, transition |-> FALSE]
  /\ lastInViewTop = Null
  /\ scheduledAtTop = Null
  /\ attrs = NoAttrs
  /\ experiments = {}
  /\ ret = [op |-> "none", entry |-> [positionRect |-> Null],
            outcome |-> "return", value |-> "undefined", wasPending |-> FALSE]

Next ==
  \/ \E entry \in Entries : ParallaxUpdate(entry)
  \/ ParallaxMutate
  \/ \E entry \in Entries : FlyInBottomUpdate(entry)
  \/ FlyInBottomMutate
  \/ \E entry \in Entries : FadeInUpdate(entry)
  \/ FadeInMutate
  \/ \E entry \in Entries : FadeInScrollUpdate(entry)
  \/ FadeInScrollMutate

Spec == Init /\ [][Next]_vars

(***************************************************************************)
(* Setting an element up: the support check and the validation of the      *)
(* element's attributes.                                                   *)
(***************************************************************************)
NoEntry == [positionRect |-> Null]

\* the attribute values elements are declared with, each with the number a
\* reader of the markup takes it to mean
AttrSamples ==
  { [str |-> <<>>,                               means |-> NaN],
    [str |-> <<"a", "b">>,                       means |-> NaN],
    [str |-> <<"0">>,                            means |-> Num(0)],
    [str |-> <<"0", ".", "5">>,                  means |-> Frac(1, 2)],
    [str |-> <<".", "7", "5">>,                  means |-> Frac(3, 4)],
    [str |-> <<"0", ".", "1">>,                  means |-> Frac(1, 10)],
    [str |-> <<"1">>,                            means |-> Num(1)],
    [str |-> <<"\t", "0", ".", "5">>,            means |-> Frac(1, 2)],
    [str |-> <<"\n", "-", "0">>,                 means |-> Num(0)],
    [str |-> InfinityStr,                        means |-> Infinity],
    [str |-> <<"-", "0", ".", "5">>,             means |-> Frac(0 - 1, 2)],
    [str |-> <<"2", "5", "e", "-", "2">>,        means |-> Frac(1, 4)],
    [str |-> <<" ", "1", ".", "5", "p", "x">>,   means |-> Frac(3, 2)] }

AttrValues == {NullAttr} \cup {a.str : a \in AttrSamples}

\* element.hasAttribute(name), the attribute's value being attrs[name]
HasAttribute(v) == v # NullAttr

\* ToBoolean of getAttribute's result: null and the empty string are falsy
StrTruthy(v) == v # NullAttr /\ v # <<>>

\* the factor test with >= in place of >
FactorIsNonNegative(v) == Ge(ParseFloat(v), Num(0))

\* parseFloat(factorValue) > 0
FactorIsPositive(v) == Gt(ParseFloat(v), Num(0))

\* parseFloat(margin) >= 0 && parseFloat(margin) < 1
MarginInRange(v) == Ge(ParseFloat(v), Num(0)) /\ Lt(ParseFloat(v), Num(1))

\* isExperimentOn(win, id)
IsExperimentOn(id) == id \in experiments

ParallaxIsFxTypeSupported ==
  /\ preset = "parallax"
  /\ Return("isFxTypeSupported", NoEntry, "true")

ParallaxUserAsserts ==
  /\ preset = "parallax"
  /\ IF AssertFails(StrTruthy(attrs.factor))
       THEN Throw("userAsserts", NoEntry)
     ELSE IF AssertFails(FactorIsPositive(attrs.factor))
       THEN Throw("userAsserts", NoEntry)
     ELSE Return("userAsserts", NoEntry, "undefined")

FlyInBottomIsFxTypeSupported ==
  /\ preset = "fly-in-bottom"
  /\ Return("isFxTypeSupported", NoEntry, "true")

FlyInBottomUserAsserts ==
  /\ preset = "fly-in-bottom"
  /\ IF ~HasAttribute(attrs.margin)
       THEN Return("userAsserts", NoEntry, "undefined")
     ELSE IF AssertFails(MarginInRange(attrs.margin))
       THEN Throw("userAsserts", NoEntry)
     ELSE Return("userAsserts", NoEntry, "undefined")

FadeInIsFxTypeSupported ==
  /\ preset = "fade-in"
  /\ IF AssertFails(IsExperimentOn("amp-fx-fade-in"))
       THEN Throw("isFxTypeSupported", NoEntry)
       ELSE Return("isFxTypeSupported", NoEntry, "undefined")

FadeInUserAsserts ==
  /\ preset = "fade-in"
  /\ IF ~HasAttribute(attrs.marginStart)
       THEN Return("userAsserts", NoEntry, "undefined")
     ELSE IF AssertFails(MarginInRange(attrs.marginStart))
       THEN Throw("userAsserts", NoEntry)
     ELSE Return("userAsserts", NoEntry, "undefined")

FadeInScrollIsFxTypeSupported ==
  /\ preset = "fade-in-scroll"
  /\ IF AssertFails(IsExperimentOn("amp-fx-fade-in-scroll"))
       THEN Throw("isFxTypeSupported", NoEntry)
       ELSE Return("isFxTypeSupported", NoEntry, "undefined")

FadeInScrollUserAsserts ==
  /\ preset = "fade-in-scroll"
  /\ IF ~HasAttribute(attrs.marginStart) /\ ~HasAttribute(attrs.marginEnd)
       THEN Return("userAsserts", NoEntry, "undefined")
     ELSE IF AssertFails(MarginInRange(attrs.marginStart))
       THEN Throw("userAsserts", NoEntry)
     ELSE IF AssertFails(MarginInRange(attrs.marginEnd))
       THEN Throw("userAsserts", NoEntry)
     ELSE IF AssertFails(Gt(ParseFloat(attrs.marginEnd),
                            ParseFloat(attrs.marginStart)))
       THEN Throw("userAsserts", NoEntry)
     ELSE Return("userAsserts", NoEntry, "undefined")

ExperimentIds == {"amp-fx-fade-in", "amp-fx-fade-in-scroll"}

InitSetup ==
  /\ preset \in PresetNames
  /\ attrs \in [factor : IF preset = "parallax" THEN AttrValues ELSE {NullAttr},
                margin : IF preset = "fly-in-bottom" THEN AttrValues ELSE {NullAttr},
                marginStart : IF preset \in {"fade-in", "fade-in-scroll"}
                                THEN AttrValues ELSE {NullAttr},
                marginEnd : IF preset = "fade-in-scroll"
                              THEN AttrValues ELSE {NullAttr}]
  /\ experiments \in SUBSET ExperimentIds
  /\ adjustedViewportHeight_ = Undefined
  /\ factor = attrs.factor
  /\ margin = Num(0)
  /\ marginStart = Num(0)
  /\ marginEnd = Frac(1, 2)
  /\ repeat = FALSE
  /\ offset = Num(0)
  /\ mutateScheduled = FALSE
  /\ pending = 0
  /\ style = [transform |-> NoStyle, opacity |-> NoStyle, transition |-> FALSE]
  /\ lastInViewTop = Null
  /\ scheduledAtTop = Null
  /\ ret = [op |-> "none", entry |-> NoEntry,
            outcome |-> "return", value |-> "undefined", wasPending |-> FALSE]

NextSetup ==
  \/ ParallaxIsFxTypeSupported
  \/ ParallaxUserAsserts
  \/ FlyInBottomIsFxTypeSupported
  \/ FlyInBottomUserAsserts
  \/ FadeInIsFxTypeSupported
  \/ FadeInUserAsserts
  \/ FadeInScrollIsFxTypeSupported
  \/ FadeInScrollUserAsserts

SpecSetup == InitSetup /\ [][NextSetup]_vars

(***************************************************************************)
(* Properties.                                                             *)
(***************************************************************************)
\* two numbers are the same value: +0 is -0, NaN is no value
Eq(x, y) == ~IsNaN(x) /\ ~IsNaN(y) /\ Cmp(x, y) = 0

\* the trigger threshold the specification gives for each preset
StatedThreshold ==
  CASE preset = "parallax" -> adjustedViewportHeight_
    [] preset = "fly-in-bottom" ->
         Mul(Sub(Num(1), margin), adjustedViewportHeight_)
    [] OTHER -> Mul(Sub(Num(1), marginStart), adjustedViewportHeight_)

PastThreshold(e) ==
  /\ e.positionRect # Null
  /\ adjustedViewportHeight_ # Undefined
  /\ Gt(e.positionRect.top, StatedThreshold)

InViewport(e) ==
  /\ e.positionRect # Null
  /\ Truthy(adjustedViewportHeight_)
  /\ ~Gt(e.positionRect.top, StatedThreshold)

\* the number a sample attribute value stands for
Means(v) == (CHOOSE a \in AttrSamples : a.str = v).means

\* C1: at most one mutation callback is pending at any time, and the
\* mutateScheduled flag is true exactly when one is pending
C1_AtMostOnePending ==
  /\ pending <= 1
  /\ mutateScheduled <=> (pending = 1)

\* an update inside the viewport arrived while a mutation was pending
C1_Witness ==
  /\ ret.op = "update" /\ ret.wasPending /\ InViewport(ret.entry)
  /\ pending = 1 /\ mutateScheduled

\* C2 as stated: an update made while a mutation is pending leaves the
\* offset, the flag and the pending mutations unchanged, for every preset
C2_PendingUpdateChangesNothing ==
  [][(pending > 0 /\ ret'.op = "update")
       => UNCHANGED <<offset, mutateScheduled, pending>>]_vars

\* C2 amended: an update made while a mutation is pending leaves the flag,
\* the pending mutations and the styles unchanged; it leaves the offset
\* unchanged for fly-in-bottom, fade-in and fade-in-scroll, while parallax
\* stores the offset of the entry when the entry is inside the viewport
C2_PendingUpdateKeepsSchedule ==
  [][(pending > 0 /\ ret'.op = "update")
       => /\ UNCHANGED <<mutateScheduled, pending, style>>
          /\ preset # "parallax" => offset' = offset
          /\ preset = "parallax" =>
               offset' = IF InViewport(ret'.entry)
                           THEN Mul(Sub(adjustedViewportHeight_,
                                        ret'.entry.positionRect.top),
                                    Neg(Sub(ParseFloat(factor), Num(1))))
                           ELSE offset]_vars

\* a fade-in-scroll update inside the viewport arrived while a mutation
\* was pending, with a top that would have given another offset
C2_Witness ==
  /\ preset = "fade-in-scroll"
  /\ ret.op = "update" /\ ret.wasPending /\ InViewport(ret.entry)
  /\ pending = 1
  /\ offset # FadeInScrollOffset(adjustedViewportHeight_,
                 ret.entry.positionRect.top, marginStart, marginEnd)

\* C3: an update whose entry has no positionRect, or whose top is past the
\* preset's trigger threshold, schedules nothing and changes neither the
\* offset nor the mutateScheduled flag
C3_OutsideViewportChangesNothing ==
  [][(ret'.op = "update"
        /\ (ret'.entry.positionRect = Null \/ PastThreshold(ret'.entry)))
       => UNCHANGED <<offset, mutateScheduled, pending>>]_vars

\* fly-in-bottom was called with a top between its threshold and the
\* viewport's height
C3_Witness ==
  /\ preset = "fly-in-bottom"
  /\ ret.op = "update" /\ ret.outcome = "return"
  /\ PastThreshold(ret.entry)
  /\ ~Gt(ret.entry.positionRect.top, adjustedViewportHeight_)
  /\ pending = 0

FalsyHeight ==
  \/ adjustedViewportHeight_ = Undefined
  \/ adjustedViewportHeight_ \in {NaN, Num(0), NegZero}

FadeInScrollStores(e) ==
  /\ preset = "fade-in-scroll"
  /\ InViewport(e)
  /\ pending = 0
  /\ repeat \/ ~Ge(offset, Num(1))

IsQuarter(m) == \E k \in 0..3 : m = Frac(k, 4)

C6_SupportCheckReturnsTrue ==
  ret.op = "isFxTypeSupported" =>
    IF \/ preset \in {"parallax", "fly-in-bottom"}
       \/ preset = "fade-in" /\ "amp-fx-fade-in" \in experiments
       \/ preset = "fade-in-scroll" /\ "amp-fx-fade-in-scroll" \in experiments
      THEN ret.outcome = "return" /\ ret.value = "true"
      ELSE ret.outcome = "throw"

\* a margin attribute that is present on the element
PresentMargins ==
  {v \in (CASE preset = "fly-in-bottom" -> {attrs.margin}
            [] preset = "fade-in" -> {attrs.marginStart}
            [] OTHER -> {attrs.marginStart, attrs.marginEnd}) : v # NullAttr}

\* C7: userAsserts of a margin preset fails exactly when a margin that is
\* present is outside [0,1) or, for fade-in-scroll, the end margin is not
\* greater than the start margin; an absent margin is no violation
C7_MarginsRejectedIffInvalid ==
  (ret.op = "userAsserts" /\ preset # "parallax") =>
    (ret.outcome = "throw" <=>
       \/ \E v \in PresentMargins :
            ~(Ge(Means(v), Num(0)) /\ Lt(Means(v), Num(1)))
       \/ /\ preset = "fade-in-scroll"
          /\ attrs.marginStart # NullAttr /\ attrs.marginEnd # NullAttr
          /\ ~Gt(Means(attrs.marginEnd), Means(attrs.marginStart)))

\* C8: userAsserts of parallax fails when data-parallax-factor is absent or
\* its value is not a number greater than 0, accepts every value greater
\* than 0, and changes nothing
C8_ParallaxFactorValidated ==
  [][(preset = "parallax" /\ ret'.op = "userAsserts")
       => /\ ret'.outcome = "throw" <=>
               (attrs.factor = NullAttr \/ ~Gt(Means(attrs.factor), Num(0)))
          /\ UNCHANGED <<fxConfig, offset, mutateScheduled, pending, style,
                         lastInViewTop, scheduledAtTop>>]_vars

\* a factor greater than 0 was accepted
C8_Witness ==
  /\ preset = "parallax"
  /\ ret.op = "userAsserts" /\ ret.outcome = "return"
  /\ attrs.factor # NullAttr /\ Gt(Means(attrs.factor), Num(0))

\* C9: for fade-in-scroll without repeat, once the stored offset is >= 1 no
\* step changes the offset or schedules a mutation, and every opacity then
\* applied is >= 1
C9_FullyAppliedStays ==
  [][(preset = "fade-in-scroll" /\ ~repeat /\ Ge(offset, Num(1)))
       => /\ offset' = offset
          /\ pending' <= pending
          /\ style'.opacity # style.opacity => Ge(style'.opacity, Num(1))]_vars

\* with the offset at >= 1 applied and nothing pending, an update arrived
\* whose top would have given an offset below 1, and changed nothing
C9_Witness ==
  /\ preset = "fade-in-scroll" /\ ~repeat
  /\ Ge(offset, Num(1)) /\ style.opacity = offset
  /\ ret.op = "update" /\ ~ret.wasPending /\ InViewport(ret.entry)
  /\ pending = 0
  /\ Lt(FadeInScrollOffset(adjustedViewportHeight_,
          ret.entry.positionRect.top, marginStart, marginEnd), Num(1))

\* (adjustedViewportHeight - top) * -(factor - 1) for the latest update
\* inside the viewport
LatestParallaxOffset ==
  Mul(Sub(adjustedViewportHeight_, lastInViewTop),
      Neg(Sub(ParseFloat(factor), Num(1))))

\* a parallax callback has just run, or none is pending after an update
\* inside the viewport
ParallaxApplied ==
  /\ preset = "parallax"
  /\ lastInViewTop # Null
  /\ ret.op = "mutate" \/ pending = 0

\* C10 as stated: the translateY applied equals the offset of the latest
\* update inside the viewport
C10_AppliedEqualsLatestOffset ==
  ParallaxApplied =>
    /\ style.transform # NoStyle
    /\ LET px == ParseFloat(Rest(style.transform, Len(TranslateYPrefix)))
       IN  Eq(px, LatestParallaxOffset)
             \/ (IsNaN(px) /\ IsNaN(LatestParallaxOffset))

\* C10 amended: the translateY applied is the offset of the latest update
\* inside the viewport, as the arithmetic of doubles gives it, written by
\* toFixed(0): rounded to an integer, a tie going away from zero
C10_AppliedIsLatestOffsetRounded ==
  ParallaxApplied =>
    style.transform = TranslateY(ToFixed0(LatestParallaxOffset))

\* a callback ran after a later update, made while it was pending, had
\* replaced the offset it was scheduled with
C10_Witness ==
  /\ ParallaxApplied /\ ret.op = "mutate"
  /\ scheduledAtTop # lastInViewTop
  /\ style.transform = TranslateY(ToFixed0(offset))
  /\ style.transform # TranslateY(ToFixed0(
         ParallaxOffset(adjustedViewportHeight_, scheduledAtTop, factor)))
====
